---- MODULE Spec2Model ----
(***************************************************************************)
(* A model of test-projects/python-sample: the module redherring.py (greet, *)
(* Redherring, calculate_discount, ArrayProcessor.sum_numbers) driven by an *)
(* arbitrary caller, and the script main.py run as a separate program.      *)
(*                                                                          *)
(* Python values are records [t |-> type name, v |-> payload]:              *)
(*   str   : v is the sequence of its characters                            *)
(*   int   : v is the integer                                               *)
(*   float : v is an IEEE-754 binary64 number [sign, man, exp], man the     *)
(*           significand as a whole number of Precision binary digits (0    *)
(*           for zero), value = (-1)^sign * man * 2^exp                     *)
(***************************************************************************)
EXTENDS Integers, Sequences, FiniteSets

VARIABLES self, ctor, args, ret, lastOp, stdout, pc, exc

vars == <<self, ctor, args, ret, lastOp, stdout, pc, exc>>

\* ------------------------------------------------------------- bounds
MaxLen == 2          \* longest number sequence the caller builds
MaxElem == 2         \* list elements range over -1 .. MaxElem
MaxAmount == 7       \* amounts range over -MaxAmount .. MaxAmount
MaxPercent == 7      \* percents range over -MaxPercent .. MaxPercent
MaxOver == 2         \* percents above 100: 100 + 1 .. 100 + MaxOver

\* ---------------------------------------------------- program constants
Hundred == 100       \* the divisor of percent / 100
Precision == 53      \* significand bits of a Python float (binary64)
MainAmount == 200    \* calculate_discount(200, 15) of main.py
MainPercent == 15

\* ------------------------------------------------------------- values
None == [t |-> "None", v |-> 0]
PyStr(s) == [t |-> "str", v |-> s]
PyInt(n) == [t |-> "int", v |-> n]
PyFloat(f) == [t |-> "float", v |-> f]

Hello == <<"H", "e", "l", "l", "o">>
Hi == <<"H", "i">>
World == <<"W", "o", "r", "l", "d">>
Alice == <<"A", "l", "i", "c", "e">>
MainNumbers == <<1, 2, 3, 4, 5>>

Names == {<<>>, World, Alice}
Prefixes == {Hello, Hi}
Elems == (0 - 1) .. MaxElem
SeqsUpTo(S, n) == UNION {[1 .. k -> S] : k \in 0 .. n}
NumberSeqs == SeqsUpTo(Elems, MaxLen) \cup {MainNumbers}
Amounts == ((0 - MaxAmount) .. MaxAmount) \cup {MainAmount}
Percents == ((0 - MaxPercent) .. MaxPercent) \cup {MainPercent}
              \cup {Hundred + k : k \in 1 .. MaxOver}

\* ------------------------------------------------- string formatting
\* format(value, "") of an f-string replacement field: a str formats as itself
Format(value) == value

\* An f-string: the literal parts and the formatted fields, joined in order
RECURSIVE JoinedStr(_)
JoinedStr(parts) ==
  IF parts = <<>> THEN <<>>
  ELSE LET h == Head(parts)
       IN (IF h.kind = "lit" THEN h.s ELSE Format(h.s)) \o JoinedStr(Tail(parts))

Lit(s) == [kind |-> "lit", s |-> s]
Field(s) == [kind |-> "field", s |-> s]

\* ---------------------------------------------------------- redherring.py
greet_NoComma(name) == PyStr(JoinedStr(<<Lit(<<"H", "e", "l", "l", "o", " ">>), Field(name), Lit(<<"!">>)>>))

\* def greet(name): return f"Hello, {name}!"
greet(name) == PyStr(JoinedStr(<<Lit(<<"H", "e", "l", "l", "o", ",", " ">>), Field(name), Lit(<<"!">>)>>))

\* Redherring.__init__: the new instance, its greeting attribute set
Redherring(greeting) == [t |-> "Redherring", greeting |-> greeting]

greet_person_Swapped(this, name) == PyStr(JoinedStr(<<Field(name), Lit(<<",", " ">>), Field(this.greeting), Lit(<<"!">>)>>))

greet_person_IgnoresSelf(this, name) == PyStr(JoinedStr(<<Field(Hello), Lit(<<",", " ">>), Field(name), Lit(<<"!">>)>>))

\* def greet_person(self, name): return f"{self.greeting}, {name}!"
greet_person(this, name) == PyStr(JoinedStr(<<Field(this.greeting), Lit(<<",", " ">>), Field(name), Lit(<<"!">>)>>))

\* sum() of the builtins: start at 0, add the items left to right
RECURSIVE PySum(_, _)
PySum(iterable, start) ==
  IF iterable = <<>> THEN start
  ELSE PySum(Tail(iterable), start + Head(iterable))

sum_numbers_SkipFirst(numbers) == PyInt(IF numbers = <<>> THEN 0 ELSE PySum(Tail(numbers), 0))

\* ArrayProcessor.sum_numbers: return sum(numbers)
sum_numbers(numbers) == PyInt(PySum(numbers, 0))

\* ------------------------------------------------ binary64 arithmetic
\* Natural numbers of any size are sequences of limbs, least significant first,
\* each limb in 0 .. Base - 1 and the last limb non-zero (<<>> is 0).
Abs(n) == IF n < 0 THEN 0 - n ELSE n

RECURSIVE BitLen(_)
BitLen(n) == IF n = 0 THEN 0 ELSE 1 + BitLen(n \div 2)

Base == 2 ^ 15
LimbBits == BitLen(Base) - 1

RECURSIVE Big(_)
Big(n) == IF n = 0 THEN <<>> ELSE <<n % Base>> \o Big(n \div Base)

RECURSIVE Norm(_)
Norm(x) ==
  IF x = <<>> \/ x[Len(x)] # 0 THEN x ELSE Norm(SubSeq(x, 1, Len(x) - 1))

Limb(x, i) == IF i <= Len(x) THEN x[i] ELSE 0

\* x + y + carry, limb i onwards
RECURSIVE AddFrom(_, _, _, _)
AddFrom(x, y, i, carry) ==
  IF i > Len(x) /\ i > Len(y) THEN (IF carry = 0 THEN <<>> ELSE <<carry>>)
  ELSE LET s == Limb(x, i) + Limb(y, i) + carry
       IN <<s % Base>> \o AddFrom(x, y, i + 1, s \div Base)

BigAdd(x, y) == Norm(AddFrom(x, y, 1, 0))

\* x * k + carry for one limb k, limb i onwards
RECURSIVE MulFrom(_, _, _, _)
MulFrom(x, k, i, carry) ==
  IF i > Len(x) THEN (IF carry = 0 THEN <<>> ELSE <<carry>>)
  ELSE LET s == x[i] * k + carry
       IN <<s % Base>> \o MulFrom(x, k, i + 1, s \div Base)

BigMulLimb(x, k) == Norm(MulFrom(x, k, 1, 0))

\* the exact product x * y: one shifted partial product per limb of y
RECURSIVE MulAcc(_, _, _)
MulAcc(x, y, i) ==
  IF i > Len(y) THEN <<>>
  ELSE BigAdd(BigMulLimb(x, y[i]), Norm(<<0>> \o MulAcc(x, y, i + 1)))

BigMul(x, y) == MulAcc(x, y, 1)

\* x divided by one limb d, from limb i down with remainder r: [q, r]
RECURSIVE DivFrom(_, _, _, _)
DivFrom(x, d, i, r) ==
  IF i = 0 THEN [q |-> <<>>, r |-> r]
  ELSE LET cur == r * Base + x[i]
           low == DivFrom(x, d, i - 1, cur % d)
       IN [q |-> Append(low.q, cur \div d), r |-> low.r]

BigDivLimb(x, d) ==
  LET res == DivFrom(x, d, Len(x), 0) IN [q |-> Norm(res.q), r |-> res.r]

\* the number of binary digits of x
BigBitLen(x) == IF x = <<>> THEN 0 ELSE LimbBits * (Len(x) - 1) + BitLen(x[Len(x)])

\* x * 2^k
BigShl(x, k) ==
  IF x = <<>> THEN <<>>
  ELSE [i \in 1 .. (k \div LimbBits) |-> 0] \o BigMulLimb(x, 2 ^ (k % LimbBits))

\* x \div 2^k, and whether a non-zero digit was shifted out
BigShr(x, k) ==
  LET whole == k \div LimbBits
      dropped == SubSeq(x, 1, IF whole < Len(x) THEN whole ELSE Len(x))
      high == BigDivLimb(SubSeq(x, whole + 1, Len(x)), 2 ^ (k % LimbBits))
  IN [q |-> high.q,
      lost |-> high.r # 0 \/ \E i \in 1 .. Len(dropped) : dropped[i] # 0]

IsOdd(x) == x # <<>> /\ x[1] % 2 = 1

\* x < y for normalised limb sequences
BigLess(x, y) ==
  \/ Len(x) < Len(y)
  \/ /\ Len(x) = Len(y)
     /\ \E i \in 1 .. Len(x) :
          /\ x[i] < y[i]
          /\ \A j \in (i + 1) .. Len(x) : x[j] = y[j]

\* A float is [sign, man, exp]: value (-1)^sign * man * 2^exp, man a number of
\* exactly Precision binary digits, or <<>> for zero
FloatZero(sign) == [sign |-> sign, man |-> <<>>, exp |-> 0]

\* the binary64 nearest to (-1)^sign * (n + fraction) * 2^exp, ties to even;
\* sticky tells that a non-zero fraction below n was dropped (n then has more
\* than Precision digits)
RoundBig(sign, n, sticky, exp) ==
  LET len == BigBitLen(n)
      cut == BigShr(n, len - Precision - 1)
      keep == BigShr(cut.q, 1).q
      up == IsOdd(cut.q) /\ (sticky \/ cut.lost \/ IsOdd(keep))
      m == IF up THEN BigAdd(keep, <<1>>) ELSE keep
  IN IF n = <<>> THEN FloatZero(sign)
     ELSE IF len <= Precision
     THEN [sign |-> sign, man |-> BigShl(n, Precision - len), exp |-> exp - (Precision - len)]
     ELSE IF BigBitLen(m) > Precision
     THEN [sign |-> sign, man |-> BigShr(m, 1).q, exp |-> exp + (len - Precision) + 1]
     ELSE [sign |-> sign, man |-> m, exp |-> exp + (len - Precision)]

\* float(n) of an int: exact below 2^Precision
IntToFloat(n) == RoundBig(IF n < 0 THEN 1 ELSE 0, Big(Abs(n)), FALSE, 0)

\* n / d of two ints (true division, d of one limb): the correctly rounded quotient
TrueDiv(n, d) ==
  LET k == Precision + 2 + BitLen(Abs(d))
      res == BigDivLimb(BigShl(Big(Abs(n)), k), Abs(d))
      sign == IF (n < 0) # (d < 0) THEN 1 ELSE 0
  IN IF n = 0 THEN FloatZero(0) ELSE RoundBig(sign, res.q, res.r # 0, 0 - k)

\* x * y of two floats: the exact product of the significands, rounded once
FloatMul(x, y) ==
  LET sign == IF x.sign # y.sign THEN 1 ELSE 0
  IN IF x.man = <<>> \/ y.man = <<>> THEN FloatZero(sign)
     ELSE RoundBig(sign, BigMul(x.man, y.man), FALSE, x.exp + y.exp)

\* the next float away from zero
FloatNext(x) ==
  LET m == BigAdd(x.man, <<1>>)
  IN IF BigBitLen(m) > Precision
     THEN [sign |-> x.sign, man |-> BigShr(m, 1).q, exp |-> x.exp + 1]
     ELSE [sign |-> x.sign, man |-> m, exp |-> x.exp]

\* x < y for two floats
FloatLess(x, y) ==
  LET magLess(u, v) ==
        IF u.man = <<>> THEN v.man # <<>>
        ELSE v.man # <<>> /\ (u.exp < v.exp \/ (u.exp = v.exp /\ BigLess(u.man, v.man)))
  IN IF x.man = <<>> /\ y.man = <<>> THEN FALSE
     ELSE IF x.sign # y.sign THEN x.sign = 1
     ELSE IF x.sign = 0 THEN magLess(x, y) ELSE magLess(y, x)

calculate_discount_Clamped(amount, percent) ==
  IF amount < 0 \/ percent < 0 \/ percent > Hundred THEN PyFloat(FloatZero(0))
  ELSE PyFloat(FloatMul(IntToFloat(amount), TrueDiv(percent, Hundred)))

calculate_discount_FloorDiv(amount, percent) ==
  PyFloat(FloatMul(IntToFloat(amount), IntToFloat(percent \div Hundred)))

calculate_discount_IntResult(amount, percent) == PyInt((amount * percent) \div Hundred)

\* def calculate_discount(amount, percent): return amount * (percent / 100)
\* int * float converts the int to a float, then multiplies
calculate_discount(amount, percent) ==
  PyFloat(FloatMul(IntToFloat(amount), TrueDiv(percent, Hundred)))

\* ------------------------------------------------------- str() of values
DigitChar == <<"0", "1", "2", "3", "4", "5", "6", "7", "8", "9">>

RECURSIVE NatStr(_)
NatStr(n) == IF n < 10 THEN <<DigitChar[n + 1]>> ELSE Append(NatStr(n \div 10), DigitChar[(n % 10) + 1])

IntStr(n) == IF n < 0 THEN <<"-">> \o NatStr(0 - n) ELSE NatStr(n)

\* a float whose value is a whole number below Base
IsSmallWhole(f) ==
  \/ f.man = <<>>
  \/ /\ f.exp <= 0
     /\ Precision + f.exp \in 1 .. LimbBits
     /\ ~BigShr(f.man, 0 - f.exp).lost

\* repr() of a float: a small whole number prints as its digits and ".0"; the
\* shortest round-trip digits of any other float are kept as one opaque token
FloatStr(f) ==
  IF IsSmallWhole(f)
  THEN (IF f.sign = 1 THEN <<"-">> ELSE <<>>)
       \o NatStr(IF f.man = <<>> THEN 0 ELSE BigShr(f.man, 0 - f.exp).q[1])
       \o <<".", "0">>
  ELSE <<[repr |-> f]>>

Str(value) ==
  IF value.t = "str" THEN value.v
  ELSE IF value.t = "int" THEN IntStr(value.v)
  ELSE IF value.t = "float" THEN FloatStr(value.v)
  ELSE <<"N", "o", "n", "e">>

\* ------------------------------------------------------------- main.py
\* the modules of the repository and the names each defines
Modules ==
  [redherring |-> {"greet", "Redherring", "calculate_discount", "ArrayProcessor"},
   main |-> {"run_greeting_examples", "message3", "result"}]

ImportedNames == {"greet", "Greeter", "calculate_discount", "ArrayProcessor"}

\* the statements of main.py in execution order (the body of
\* run_greeting_examples at its call on line 11)
MainProgram ==
  << [op |-> "import", name |-> "greeter", a |-> ImportedNames, to |-> ""],
     [op |-> "call", name |-> "greet", a |-> <<World>>, to |-> "message1"],
     [op |-> "print", name |-> "message1", a |-> <<>>, to |-> ""],
     [op |-> "call", name |-> "Greeter", a |-> <<Hi>>, to |-> "greeter_instance"],
     [op |-> "method", name |-> "greet_person", a |-> <<"greeter_instance", Alice>>, to |-> "message2"],
     [op |-> "print", name |-> "message2", a |-> <<>>, to |-> ""],
     [op |-> "call", name |-> "calculate_discount", a |-> <<MainAmount, MainPercent>>, to |-> "message3"],
     [op |-> "print", name |-> "message3", a |-> <<>>, to |-> ""],
     [op |-> "call", name |-> "ArrayProcessor", a |-> <<MainNumbers>>, to |-> "result"],
     [op |-> "print", name |-> "result", a |-> <<>>, to |-> ""] >>

MainVars == {"message1", "greeter_instance", "message2", "message3", "result"}

\* calling what an imported name is bound to
Apply(name, a) ==
  IF name = "greet" THEN greet(a[1])
  ELSE IF name = "Redherring" THEN Redherring(a[1])
  ELSE IF name = "calculate_discount" THEN calculate_discount(a[1], a[2])
  ELSE IF name = "ArrayProcessor" THEN sum_numbers(a[1])
  ELSE [t |-> "NameError", v |-> 0]

\* the interpreter: statement i onwards, stopping at the first exception.
\* st = [out: lines printed, exc: the uncaught exception, bound: names imported,
\*       env: the module's variables]
RECURSIVE RunFrom(_, _, _, _)
RunFrom(prog, modules, i, st) ==
  IF i > Len(prog) \/ st.exc # "none" THEN st
  ELSE LET s == prog[i]
       IN IF s.op = "import"
          THEN IF s.name \notin DOMAIN modules
               THEN [st EXCEPT !.exc = "ModuleNotFoundError"]
               ELSE IF ~(s.a \subseteq modules[s.name])
               THEN [st EXCEPT !.exc = "ImportError"]
               ELSE RunFrom(prog, modules, i + 1, [st EXCEPT !.bound = st.bound \cup s.a])
          ELSE IF s.op = "call"
          THEN IF s.name \notin st.bound
               THEN [st EXCEPT !.exc = "NameError"]
               ELSE RunFrom(prog, modules, i + 1, [st EXCEPT !.env[s.to] = Apply(s.name, s.a)])
          ELSE IF s.op = "method"
          THEN RunFrom(prog, modules, i + 1,
                       [st EXCEPT !.env[s.to] = greet_person(st.env[s.a[1]], s.a[2])])
          ELSE RunFrom(prog, modules, i + 1,
                       [st EXCEPT !.out = Append(st.out, Str(st.env[s.name]))])

RunScript(prog, modules) ==
  RunFrom(prog, modules, 1,
          [out |-> <<>>, exc |-> "none", bound |-> {}, env |-> [x \in MainVars |-> None]])

\* ------------------------------------------------------ the state machine
\* self   : the Redherring instance the caller holds (None before construction)
\* ctor   : the greeting the caller passed to the constructor of self
\* args   : the values the caller holds and passes to the operations
\* ret    : what the last call returned
\* lastOp : the step taken last
\* stdout : the lines written to standard output
\* pc, exc: the run of main.py and the exception that ended it
NoArgs == [name |-> <<>>, amount |-> 0, percent |-> 0, numbers |-> <<>>]

ArgValues ==
  {[NoArgs EXCEPT !.name = n] : n \in Names}
  \cup {[NoArgs EXCEPT !.numbers = s] : s \in NumberSeqs}
  \cup {[NoArgs EXCEPT !.amount = x[1], !.percent = x[2]] : x \in Amounts \X Percents}

Operations == {"greet", "greet_person", "calculate_discount", "sum_numbers"}

Init ==
  /\ self = None
  /\ ctor = <<>>
  /\ args = NoArgs
  /\ ret = None
  /\ lastOp = "start"
  /\ stdout = <<>>
  /\ pc = "ready"
  /\ exc = "none"

\* the caller sets the values it is about to pass
Pass ==
  /\ \E x \in ArgValues : args' = x
  /\ ret' = None
  /\ lastOp' = "caller"
  /\ UNCHANGED <<self, ctor, stdout, pc, exc>>

\* Redherring(greeting): __init__ stores the greeting on the new instance
Construct ==
  /\ \E p \in Prefixes : self' = Redherring(p) /\ ctor' = p
  /\ ret' = None
  /\ lastOp' = "__init__"
  /\ UNCHANGED <<args, stdout, pc, exc>>

CallGreet ==
  /\ ret' = greet(args.name)
  /\ lastOp' = "greet"
  /\ UNCHANGED <<self, ctor, args, stdout, pc, exc>>

CallGreetPerson_StoresName ==
  /\ self.t = "Redherring"
  /\ ret' = greet_person(self, args.name)
  /\ self' = [self EXCEPT !.greeting = args.name]
  /\ lastOp' = "greet_person"
  /\ UNCHANGED <<ctor, args, stdout, pc, exc>>

CallGreetPerson ==
  /\ self.t = "Redherring"
  /\ ret' = greet_person(self, args.name)
  /\ lastOp' = "greet_person"
  /\ UNCHANGED <<self, ctor, args, stdout, pc, exc>>

CallCalculateDiscount ==
  /\ ret' = calculate_discount(args.amount, args.percent)
  /\ lastOp' = "calculate_discount"
  /\ UNCHANGED <<self, ctor, args, stdout, pc, exc>>

CallSumNumbers_Consumes ==
  /\ ret' = sum_numbers(args.numbers)
  /\ args' = [args EXCEPT !.numbers = <<>>]
  /\ lastOp' = "sum_numbers"
  /\ UNCHANGED <<self, ctor, stdout, pc, exc>>

CallSumNumbers ==
  /\ ret' = sum_numbers(args.numbers)
  /\ lastOp' = "sum_numbers"
  /\ UNCHANGED <<self, ctor, args, stdout, pc, exc>>

\* python main.py: the whole script, to its end or its first uncaught exception
RunMain ==
  /\ pc = "ready"
  /\ LET r == RunScript(MainProgram, Modules)
     IN /\ stdout' = stdout \o r.out
        /\ exc' = r.exc
  /\ pc' = "exited"
  /\ lastOp' = "main"
  /\ UNCHANGED <<self, ctor, args, ret>>

Next ==
  \/ Pass
  \/ Construct
  \/ CallGreet
  \/ CallGreetPerson
  \/ CallCalculateDiscount
  \/ CallSumNumbers
  \/ RunMain

Spec == Init /\ [][Next]_vars

\* ------------------------------------------------------------ the claims
HelloWorld == <<"H", "e", "l", "l", "o", ",", " ", "W", "o", "r", "l", "d", "!">>
HiAlice == <<"H", "i", ",", " ", "A", "l", "i", "c", "e", "!">>

\* C1: after greet(n) the result is the str "Hello, " + n + "!", for every name
\* n, the empty one included; greet("World") is "Hello, World!"; never an error
C1_GreetFormat ==
  lastOp = "greet" =>
    /\ ret.t = "str"
    /\ ret.v = <<"H", "e", "l", "l", "o", ",", " ">> \o args.name \o <<"!">>
    /\ (args.name = World => ret.v = HelloWorld)

C1_Witness ==
  lastOp = "greet" /\ args.name = <<>> /\ ret.v = <<"H", "e", "l", "l", "o", ",", " ", "!">>

\* C2: after greet_person(n) on an instance constructed with prefix p the result
\* is the str p + ", " + n + "!", whatever was called before; prefix "Hi" and
\* name "Alice" give "Hi, Alice!"
C2_GreetPersonFormat ==
  lastOp = "greet_person" =>
    /\ ret.t = "str"
    /\ ret.v = ctor \o <<",", " ">> \o args.name \o <<"!">>
    /\ (ctor = Hi /\ args.name = Alice => ret.v = HiAlice)

C2_Witness ==
  lastOp = "greet_person" /\ ctor = Hi /\ args.name = Alice /\ ret.v = HiAlice

RECURSIVE SumFromRight(_)
SumFromRight(s) ==
  IF s = <<>> THEN 0 ELSE s[Len(s)] + SumFromRight(SubSeq(s, 1, Len(s) - 1))

Reorderings(s) ==
  {[i \in 1 .. Len(s) |-> s[f[i]]] :
     f \in {g \in [1 .. Len(s) -> 1 .. Len(s)] :
              \A i, j \in 1 .. Len(s) : i # j => g[i] # g[j]}}

\* C3: after sum_numbers(s) the result is the int sum of the elements of s, 0
\* for the empty s and 15 for [1, 2, 3, 4, 5], and every reordering of s has
\* the same sum
C3_SumNumbers ==
  lastOp = "sum_numbers" =>
    /\ ret.t = "int"
    /\ ret.v = SumFromRight(args.numbers)
    /\ (args.numbers = <<>> => ret.v = 0)
    /\ (args.numbers = <<1, 2, 3, 4, 5>> => ret.v = 15)
    /\ \A q \in Reorderings(args.numbers) : sum_numbers(q).v = ret.v

C3_Witness ==
  lastOp = "sum_numbers" /\ args.numbers = <<1, 2, 3, 4, 5>> /\ ret.v = 15

\* two floats that are equal or next to each other
EqualOrAdjacent(x, y) ==
  \/ x = y
  \/ /\ x.man # <<>>
     /\ y.man # <<>>
     /\ (FloatNext(x) = y \/ FloatNext(y) = x)

\* C4 as claimed: for non-negative amount a and percent p the result of
\* calculate_discount(a, p) is the same float as a * p / 100
C4_ExactlyMultiplyFirst ==
  (lastOp = "calculate_discount" /\ args.amount >= 0 /\ args.percent >= 0) =>
    /\ ret.t = "float"
    /\ ret.v = TrueDiv(args.amount * args.percent, Hundred)

\* C4 as amended: for non-negative amount a and percent p the result of
\* calculate_discount(a, p) is the float a * p / 100 or a float next to it
C4_WithinOneUlp ==
  (lastOp = "calculate_discount" /\ args.amount >= 0 /\ args.percent >= 0) =>
    /\ ret.t = "float"
    /\ EqualOrAdjacent(ret.v, TrueDiv(args.amount * args.percent, Hundred))

C4_Witness ==
  /\ lastOp = "calculate_discount"
  /\ args.amount = 3
  /\ args.percent = 7
  /\ ret.v # TrueDiv(21, Hundred)
  /\ ret.v = FloatNext(TrueDiv(21, Hundred))

\* C5: calculate_discount(200, 15) returns the float 30.0: not the int 30, and
\* not a float next to 30.0
C5_DiscountOfMain ==
  (lastOp = "calculate_discount" /\ args.amount = 200 /\ args.percent = 15) =>
    /\ ret.t = "float"
    /\ ret.v = IntToFloat(30)
    /\ Str(ret) = <<"3", "0", ".", "0">>

C5_Witness ==
  lastOp = "calculate_discount" /\ args.amount = 200 /\ args.percent = 15 /\ ret.t = "float"

\* C6: in every state after construction with prefix p, whatever operations
\* were called on the instance, the stored greeting is p
C6_PrefixImmutable ==
  self.t = "Redherring" => self.greeting = ctor

C6_Witness ==
  lastOp = "greet_person" /\ self.t = "Redherring" /\ self.greeting = Hi /\ args.name = World

\* C7 as claimed: main.py reaches its end without an exception, having printed
\* "Hello, World!", "Hi, Alice!", "30.0" and "15" in this order
C7_MainPrintsFour ==
  pc = "exited" =>
    /\ exc = "none"
    /\ stdout = <<HelloWorld, HiAlice, <<"3", "0", ".", "0">>, <<"1", "5">>>>

\* C8: a call of greet, greet_person, calculate_discount or sum_numbers changes
\* nothing but the return value: not the instance, not the values the caller
\* passed (the list's elements and their order), not standard output
C8_SideEffectFree ==
  [][lastOp' \in Operations =>
       /\ self' = self
       /\ ctor' = ctor
       /\ args' = args
       /\ stdout' = stdout
       /\ pc' = pc
       /\ exc' = exc]_vars

C8_Witness ==
  /\ lastOp = "sum_numbers"
  /\ args.numbers = <<2, 1>>
  /\ self.t = "Redherring"
  /\ stdout = <<>>

IsNegative(f) == FloatLess(f, FloatZero(0))
ExactlyOneNegative(a, p) == (a < 0) # (p < 0)

\* C9 as claimed: calculate_discount returns the float amount * (percent / 100)
\* for every amount and percent, negative whenever exactly one input is
\* negative and larger than the amount whenever percent exceeds 100
C9_NoValidationAsClaimed ==
  lastOp = "calculate_discount" =>
    /\ ret.t = "float"
    /\ ret.v = FloatMul(IntToFloat(args.amount), TrueDiv(args.percent, Hundred))
    /\ (ExactlyOneNegative(args.amount, args.percent) => IsNegative(ret.v))
    /\ (args.percent > Hundred => FloatLess(IntToFloat(args.amount), ret.v))

\* C9 as amended: the result is negative when one input is negative and the
\* other positive, and larger than the amount when percent exceeds 100 and the
\* amount is positive
C9_NoValidation ==
  lastOp = "calculate_discount" =>
    /\ ret.t = "float"
    /\ ret.v = FloatMul(IntToFloat(args.amount), TrueDiv(args.percent, Hundred))
    /\ (ExactlyOneNegative(args.amount, args.percent)
          /\ args.amount # 0 /\ args.percent # 0 => IsNegative(ret.v))
    /\ (args.percent > Hundred /\ args.amount > 0
          => FloatLess(IntToFloat(args.amount), ret.v))

C9_Witness ==
  /\ lastOp = "calculate_discount"
  /\ args.amount = 2
  /\ args.percent = Hundred + 1
  /\ FloatLess(IntToFloat(2), ret.v)

\* C10: greet(n) returns what greet_person(n) returns on an instance
\* constructed with the prefix "Hello"
C10_GreetIsHelloInstance ==
  lastOp = "greet" => ret = greet_person(Redherring(Hello), args.name)

C10_Witness ==
  lastOp = "greet" /\ args.name = Alice /\ ret.t = "str"

====
